---------------------------- MODULE Spec2Model ----------------------------
(***************************************************************************)
(* The notes client: HTTP adapter (request/response interceptors), the     *)
(* domain facade, the Notes controller, the note composition form, the     *)
(* Login controller and the route table, run against the remote API.       *)
(*                                                                         *)
(* A request lives in `inflight` from the moment a handler issues it:      *)
(*   "sent"     the request interceptor has run, the server has not yet    *)
(*              handled it;                                                *)
(*   "answered" the server has handled it, the response is on the wire;    *)
(*   "settled"  the response interceptor has run and the facade's promise  *)
(*              is fulfilled or rejected; the awaiting handler resumes in  *)
(*              the next step (a microtask: nothing else runs in between). *)
(* A handler that awaits captures the values of its render (`notes`,       *)
(* `selectedNote`) when it is invoked; the request carries them as         *)
(* capNotes / capSel (of the captured selection only the id is ever read). *)
(***************************************************************************)
EXTENDS Integers, Sequences, FiniteSets, TLC

\* ------------------------------------------------------------------ bounds
\* requests the user's actions may start in one run (the fetch a screen issues
\* when it mounts and the re-fetch after a create or a delete are not counted)
MaxRequests == 2
\* requests outstanding at the same time
MaxInFlight == 2

\* ------------------------------------------------------------- program data
HTTP_UNAUTHORIZED == 401

\* the falsy string: JS null / undefined / '' wherever the code tests truthiness
None == ""

Tokens == {"t1", "t2"}
\* the user the server returns together with a token
UserOf(t) == IF t = "t1" THEN "u1" ELSE IF t = "t2" THEN "u2" ELSE None

\* texts a user types, as sequences of characters
Texts == {<<>>, <<" ">>, <<" ", "a", " ">>}
\* a text that survives validation
ValidText == <<" ", "a", " ">>
Files == {"f1", "f2"}
UrlOf(f) == IF f = "f1" THEN "cdn/f1" ELSE "cdn/f2"
Summaries == {"s1", "s2"}
Paths == {"/", "/login", "/notes"}
\* query parameters the login screen looks at
Params == {"none", "confirmed", "error", "token_hash"}

\* String.prototype.trim
RECURSIVE TrimStart(_)
TrimStart(s) == IF s # <<>> /\ Head(s) = " " THEN TrimStart(Tail(s)) ELSE s
RECURSIVE TrimEnd(_)
TrimEnd(s) ==
    IF s # <<>> /\ s[Len(s)] = " " THEN TrimEnd(SubSeq(s, 1, Len(s) - 1)) ELSE s
Trim(s) == TrimEnd(TrimStart(s))

\* ------------------------------------------------------- base-path resolution
\* a URL is a sequence of pieces; " " is white space, "http:/" is what is left
\* of "http://" when its last character is removed
MaxUrlLen == 3
UrlPieces == {" ", "/", "http://", "https://", "localhost", "127.0.0.1", "api"}
Urls == UNION {[1..n -> UrlPieces] : n \in 0..MaxUrlLen}
\* import.meta.env as the build defines it; VITE_API_URL may be undefined
Envs ==
    {[defined |-> TRUE, VITE_API_URL |-> u, PROD |-> p] : u \in Urls, p \in BOOLEAN}
        \cup {[defined |-> FALSE, VITE_API_URL |-> <<>>, PROD |-> p] : p \in BOOLEAN}
NoOverride == [defined |-> FALSE, VITE_API_URL |-> <<>>, PROD |-> TRUE]
NotEvaluated == <<>>
DefaultRoot == <<"/", "api">>
Front(s) == SubSeq(s, 1, Len(s) - 1)
\* String.prototype.replace(/\/$/, ''): drops one "/" at the very end
ReplaceTrailingSlash(s) ==
    IF s = <<>> THEN s
    ELSE LET last == s[Len(s)]
         IN  IF last = "/" THEN Front(s)
             ELSE IF last = "http://" THEN Front(s) \o <<"http:/">>
             ELSE IF last = "https://" THEN Front(s) \o <<"https:/">>
             ELSE s
\* String.prototype.includes: no piece other than "localhost" contains that text
Includes(s, piece) == \E j \in 1..Len(s) : s[j] = piece
\* String.prototype.startsWith for a prefix that is one piece
StartsWith(s, piece) == s # <<>> /\ Head(s) = piece
\* a string is truthy unless it is undefined or empty
Truthy(s) == s # <<>>
getApiBaseURL(e) ==
    LET apiUrl == IF e.defined THEN e.VITE_API_URL ELSE <<>>
        trimmed == ReplaceTrailingSlash(Trim(apiUrl))
    IN  IF Truthy(apiUrl) /\ Truthy(Trim(apiUrl))
        THEN IF e.PROD /\ Includes(trimmed, "localhost")
             THEN DefaultRoot
             ELSE IF \/ StartsWith(trimmed, "http://")
                     \/ StartsWith(trimmed, "https://")
                     \/ StartsWith(trimmed, "/")
                  THEN trimmed
                  ELSE DefaultRoot
        ELSE DefaultRoot

\* Note (created_at / updated_at are not modelled); id 0 stands for null
NoNote ==
    [id |-> 0, title |-> <<>>, content |-> <<>>, image_url |-> None,
     summary |-> None, user_id |-> None]
\* notes the server may hold from earlier sessions when the run starts
Seeds ==
    <<[id |-> 1, title |-> <<"b">>, content |-> <<"b">>, image_url |-> None,
       summary |-> None, user_id |-> "u1"],
      [id |-> 2, title |-> <<"c">>, content |-> <<"b">>, image_url |-> None,
       summary |-> None, user_id |-> "u1"]>>
\* NoteCreate
NoDraft == [title |-> <<>>, content |-> <<>>, image_url |-> None]

NoDialog == [type |-> "none", site |-> None, msg |-> None, status |-> 0, id |-> 0]
Alert(site, msg, status) ==
    [type |-> "alert", site |-> site, msg |-> msg, status |-> status, id |-> 0]
Confirm(id, accepted) ==
    [type |-> IF accepted THEN "confirm-accepted" ELSE "confirm-declined",
     site |-> "handleDeleteNote", msg |-> "Are you sure you want to delete this note?",
     status |-> 0, id |-> id]

VARIABLES
    \* browser
    storage,        \* localStorage: [token, user]
    location,       \* the router's current path
    navTarget,      \* target of a full-page navigation that has been started, or None
    searchParams,   \* query parameters of the current URL
    dialog,         \* the alert / confirm dialog raised by the last step
    \* session store
    isAuthenticated,
    \* Login controller
    isRegister, error, success, loginLoading,
    authLog,        \* calls the current submission has made: login(..), navigate(..)
    \* Notes controller
    notes, loading, showForm, selectedNote, summarizing,
    \* NoteForm
    title, content, imageUrl, uploading,
    \* network and remote API
    inflight, serverNotes, nextId,
    issued,         \* requests the user's actions have started so far
    \* build configuration
    env,            \* import.meta.env: [defined, VITE_API_URL, PROD]
    baseURL         \* the module constant baseURL, NotEvaluated before the module body runs

browserVars == <<storage, location, navTarget, searchParams, dialog>>
loginVars == <<isRegister, error, success, loginLoading, authLog>>
notesVars == <<notes, loading, showForm, selectedNote, summarizing>>
formVars == <<title, content, imageUrl, uploading>>
serverVars == <<serverNotes, nextId>>
configVars == <<env, baseURL>>
vars ==
    <<browserVars, isAuthenticated, loginVars, notesVars, formVars, inflight,
      serverVars, issued, configVars>>

\* ------------------------------------------------------------ HTTP adapter
\* the Authorization header of a request: absent, or `Bearer ${token}`
NoHeader == [scheme |-> None, credentials |-> None]
Bearer(token) == [scheme |-> "Bearer", credentials |-> token]
\* the token the remote API reads from a header
Presented(h) == IF h.scheme = "Bearer" THEN h.credentials ELSE None
\* an interceptor that attaches the token it read when the module was loaded
RequestInterceptorFixed(st) == Bearer("t1")
\* api.interceptors.request.use: the Authorization header a request leaves with
\* (NoHeader: the request carries none)
RequestInterceptor(st) == IF st.token # None THEN Bearer(st.token) ELSE NoHeader

\* a request as the adapter sends it
Request(st, kind, id, draft, file, capNotes, capSel, formLive) ==
    [kind |-> kind, id |-> id, draft |-> draft, file |-> file,
     auth |-> RequestInterceptor(st),
     capNotes |-> capNotes, capSel |-> capSel, formLive |-> formLive,
     phase |-> "sent", status |-> 0, rejected |-> FALSE, detail |-> None,
     message |-> None, rNotes |-> {}, rNote |-> NoNote, rUrl |-> None,
     rToken |-> None, rUser |-> None, rConfirm |-> FALSE, rMsg |-> None]

\* an error branch that removes the token and leaves the user entry
InterceptorStorageTokenOnly(st, status) ==
    IF status = HTTP_UNAUTHORIZED THEN [token |-> None, user |-> st.user] ELSE st
\* api.interceptors.response.use, error branch: what is left of localStorage
InterceptorStorage(st, status) ==
    IF status = HTTP_UNAUTHORIZED THEN [token |-> None, user |-> None] ELSE st
\* ... and the full-page navigation it starts (window.location.href = '/login')
InterceptorNavTarget(nav, status) ==
    IF status = HTTP_UNAUTHORIZED THEN "/login" ELSE nav
\* whether the promise handed to the caller is rejected: the success branch
\* returns the response, the error branch always returns Promise.reject(error)
InterceptorRejects(status) == ~(status >= 200 /\ status < 300)

\* the text a call site shows: error.response?.data?.detail || fallback
DetailOr(r, fallback) == IF r.detail # None THEN r.detail ELSE fallback

\* --------------------------------------------------------------- routing
\* a route table whose /login route renders the login screen unconditionally
AppRoutesOpenLogin(path, auth) ==
    CASE path = "/login" -> [redirect |-> None, screen |-> "Login"]
      [] path = "/notes" -> IF auth THEN [redirect |-> None, screen |-> "Notes"]
                                    ELSE [redirect |-> "/login", screen |-> None]
      [] OTHER -> [redirect |-> "/notes", screen |-> None]
\* AppRoutes: the element a path renders for an authentication state;
\* a redirect names the path it navigates to
AppRoutes(path, auth) ==
    CASE path = "/login" -> IF auth THEN [redirect |-> "/notes", screen |-> None]
                                    ELSE [redirect |-> None, screen |-> "Login"]
      [] path = "/notes" -> IF auth THEN [redirect |-> None, screen |-> "Notes"]
                                    ELSE [redirect |-> "/login", screen |-> None]
      [] OTHER -> [redirect |-> "/notes", screen |-> None]

\* follow redirects until a screen renders (at most `fuel` redirects)
RECURSIVE Settle(_, _, _)
Settle(path, auth, fuel) ==
    LET r == AppRoutes(path, auth)
    IN  IF r.redirect = None \/ fuel = 0 THEN path
        ELSE Settle(r.redirect, auth, fuel - 1)
Settled(path, auth) == Settle(path, auth, Cardinality(Paths))
ScreenAt(path, auth) == AppRoutes(path, auth).screen
Screen == ScreenAt(location, isAuthenticated)

\* ---------------------------------------------------------- session store
\* initial load: a stored session is restored without asking the server
RestoreSession(st) == st.token # None
\* login(token, user): both are persisted
SessionLogin(token, user) == [token |-> token, user |-> user]

\* ------------------------------------------------------- Login controller
\* an effect that also shows a banner when the confirmation failed
ParamsSuccessAlways(p) ==
    IF p = "none" THEN None ELSE "Processing email confirmation..."
\* the effect on searchParams: the banner and the error it sets on mount
ParamsSuccess(p) ==
    CASE p = "confirmed" -> "Email confirmed successfully! You can now log in."
      [] p = "token_hash" -> "Processing email confirmation..."
      [] OTHER -> None
ParamsError(p) == IF p = "error" THEN "Confirmation failed" ELSE None

\* ------------------------------------------------------------ page load
NoSession == [token |-> None, user |-> None]
\* notesAPI.getAll() as loadNotes issues it
GetAll(st) == Request(st, "getAll", 0, NoDraft, None, {}, 0, FALSE)
\* the requests the screen rendered at `path` issues when it mounts:
\* the Notes controller's effect calls loadNotes()
MountRequests(path, st) ==
    IF ScreenAt(Settled(path, RestoreSession(st)), RestoreSession(st)) = "Notes"
    THEN <<GetAll(st)>> ELSE <<>>
\* the query parameters the login screen sees after the routes have settled
MountParams(path, st, p) ==
    IF ScreenAt(Settled(path, RestoreSession(st)), RestoreSession(st)) = "Login"
       /\ path = "/login"
    THEN p ELSE "none"

\* the page as the browser first renders it
InitPage ==
    /\ storage \in {NoSession} \cup {SessionLogin(t, UserOf(t)) : t \in Tokens}
    /\ \E path \in Paths, p \in Params :
          /\ isAuthenticated = RestoreSession(storage)
          /\ location = Settled(path, RestoreSession(storage))
          /\ searchParams = MountParams(path, storage, p)
          /\ inflight = MountRequests(path, storage)
    /\ navTarget = None
    /\ dialog = NoDialog
    /\ isRegister = FALSE
    /\ error = ParamsError(searchParams)
    /\ success = ParamsSuccess(searchParams)
    /\ loginLoading = FALSE
    /\ authLog = <<>>
    /\ notes = {}
    /\ loading = TRUE
    /\ showForm = FALSE
    /\ selectedNote = NoNote
    /\ summarizing = 0
    /\ title = <<>>
    /\ content = <<>>
    /\ imageUrl = None
    /\ uploading = FALSE
    /\ \E k \in 0..Len(Seeds) :
          /\ serverNotes = {Seeds[j] : j \in 1..k}
          /\ nextId = k + 1
    /\ issued = 0

\* a deployed build without an override: api.ts has been evaluated
Init ==
    /\ InitPage
    /\ env = NoOverride
    /\ baseURL = getApiBaseURL(env)

\* ------------------------------------------------------------- helpers
RemoveAt(seq, i) == SubSeq(seq, 1, i - 1) \o SubSeq(seq, i + 1, Len(seq))
\* no handler is waiting to resume
Idle == \A i \in DOMAIN inflight : inflight[i].phase # "settled"
HasRoom == Len(inflight) < MaxInFlight /\ issued < MaxRequests
\* the NoteForm instance is gone: what its pending handlers set is lost
FormUnmounted(reqs) == [i \in DOMAIN reqs |-> [reqs[i] EXCEPT !.formLive = FALSE]]
\* the Notes screen renders its controls only when not loading
NotesUI == Screen = "Notes" /\ ~loading /\ Idle
FormUI == NotesUI /\ showForm
LoginUI == Screen = "Login" /\ Idle

FreshForm ==
    /\ title' = <<>>
    /\ content' = <<>>
    /\ imageUrl' = None
    /\ uploading' = FALSE
FreshLogin ==
    /\ isRegister' = FALSE
    /\ loginLoading' = FALSE
FreshNotes ==
    /\ notes' = {}
    /\ loading' = TRUE
    /\ showForm' = FALSE
    /\ selectedNote' = NoNote
    /\ summarizing' = 0

\* ------------------------------------------------------ Notes controller
\* onClick={() => setShowForm(!showForm)}
ToggleForm ==
    /\ NotesUI
    /\ showForm' = ~showForm
    /\ FreshForm
    /\ inflight' = FormUnmounted(inflight)
    /\ dialog' = NoDialog
    /\ UNCHANGED <<configVars, storage, location, navTarget, searchParams, isAuthenticated,
                   loginVars, notes, loading, selectedNote, summarizing, serverVars, issued>>

\* onCancel={() => setShowForm(false)}
OnCancel ==
    /\ FormUI
    /\ showForm' = FALSE
    /\ FreshForm
    /\ inflight' = FormUnmounted(inflight)
    /\ dialog' = NoDialog
    /\ UNCHANGED <<configVars, storage, location, navTarget, searchParams, isAuthenticated,
                   loginVars, notes, loading, selectedNote, summarizing, serverVars, issued>>

\* onClick={() => setSelectedNote(note)}
SelectNote(n) ==
    /\ NotesUI
    /\ n \in notes
    /\ selectedNote' = n
    /\ dialog' = NoDialog
    /\ UNCHANGED <<configVars, storage, location, navTarget, searchParams, isAuthenticated,
                   loginVars, notes, loading, showForm, summarizing,
                   formVars, inflight, serverVars, issued>>

\* a handler that does not ask
DeleteFiresAlways(accepted) == TRUE
\* handleDeleteNote: whether the request fires for the answer given to confirm()
DeleteFires(accepted) == accepted

\* handleDeleteNote(selectedNote.id), up to the await
HandleDeleteNote(accepted) ==
    /\ NotesUI
    /\ selectedNote # NoNote
    /\ dialog' = Confirm(selectedNote.id, accepted)
    /\ IF DeleteFires(accepted)
       THEN /\ HasRoom
            /\ issued' = issued + 1
            /\ inflight' = Append(inflight,
                  Request(storage, "delete", selectedNote.id, NoDraft, None, {},
                          selectedNote.id, FALSE))
       ELSE UNCHANGED <<inflight, issued>>
    /\ UNCHANGED <<configVars, storage, location, navTarget, searchParams, isAuthenticated,
                   loginVars, notesVars, formVars, serverVars>>

\* handleSummarize(selectedNote.id), up to the await; the button is disabled
\* while summarizing === selectedNote.id
HandleSummarize ==
    /\ NotesUI
    /\ selectedNote # NoNote
    /\ summarizing # selectedNote.id
    /\ HasRoom
    /\ summarizing' = selectedNote.id
    /\ issued' = issued + 1
    /\ inflight' = Append(inflight,
          Request(storage, "summarize", selectedNote.id, NoDraft, None, notes,
                  selectedNote.id, FALSE))
    /\ dialog' = NoDialog
    /\ UNCHANGED <<configVars, storage, location, navTarget, searchParams, isAuthenticated,
                   loginVars, notes, loading, showForm, selectedNote,
                   formVars, serverVars>>

\* --------------------------------------------------------------- NoteForm
\* onChange={(e) => setTitle(e.target.value)}
SetTitle(s) ==
    /\ FormUI
    /\ title' = s
    /\ dialog' = NoDialog
    /\ UNCHANGED <<configVars, storage, location, navTarget, searchParams, isAuthenticated,
                   loginVars, notesVars, content, imageUrl, uploading, inflight,
                   serverVars, issued>>

\* onChange={(e) => setContent(e.target.value)}
SetContent(s) ==
    /\ FormUI
    /\ content' = s
    /\ dialog' = NoDialog
    /\ UNCHANGED <<configVars, storage, location, navTarget, searchParams, isAuthenticated,
                   loginVars, notesVars, title, imageUrl, uploading, inflight,
                   serverVars, issued>>

\* onClick={() => setImageUrl('')}, rendered only while imageUrl is set
RemoveImage ==
    /\ FormUI
    /\ imageUrl # None
    /\ imageUrl' = None
    /\ dialog' = NoDialog
    /\ UNCHANGED <<configVars, storage, location, navTarget, searchParams, isAuthenticated,
                   loginVars, notesVars, title, content, uploading, inflight,
                   serverVars, issued>>

\* handleImageUpload, up to the await; f = None: no file was chosen.
\* The upload button is disabled while uploading.
HandleImageUpload(f) ==
    /\ FormUI
    /\ ~uploading
    /\ dialog' = NoDialog
    /\ IF f = None
       THEN UNCHANGED <<uploading, inflight, issued>>
       ELSE /\ HasRoom
            /\ uploading' = TRUE
            /\ issued' = issued + 1
            /\ inflight' = Append(inflight,
                  Request(storage, "upload", 0, NoDraft, f, {}, 0, TRUE))
    /\ UNCHANGED <<configVars, storage, location, navTarget, searchParams, isAuthenticated,
                   loginVars, notesVars, title, content, imageUrl, serverVars>>

\* handleSubmit: the validation that blocks a submit
SubmitBlocked(t, c) == Trim(t) = <<>> \/ Trim(c) = <<>>
\* a draft that carries the fields as typed
SubmittedDraftAsTyped(t, c, img) ==
    [title |-> t, content |-> c, image_url |-> IF img # None THEN img ELSE None]
\* a draft that leaves the image out
SubmittedDraftNoImage(t, c, img) ==
    [title |-> Trim(t), content |-> Trim(c), image_url |-> None]
\* handleSubmit: the draft handed to onSubmit
SubmittedDraft(t, c, img) ==
    [title |-> Trim(t), content |-> Trim(c),
     image_url |-> IF img # None THEN img ELSE None]

\* NoteForm.handleSubmit with onSubmit = handleCreateNote, up to the await in
\* notesAPI.create; the submit button is disabled while uploading
FormHandleSubmit ==
    /\ FormUI
    /\ ~uploading
    /\ IF SubmitBlocked(title, content)
       THEN /\ dialog' = Alert("NoteForm.handleSubmit",
                               "Please fill in both title and content", 0)
            /\ UNCHANGED <<inflight, issued>>
       ELSE /\ HasRoom
            /\ dialog' = NoDialog
            /\ issued' = issued + 1
            /\ inflight' = Append(inflight,
                  Request(storage, "create", 0,
                          SubmittedDraft(title, content, imageUrl), None, {},
                          0, TRUE))
    /\ UNCHANGED <<configVars, storage, location, navTarget, searchParams, isAuthenticated,
                   loginVars, notesVars, formVars, serverVars>>

\* ------------------------------------------------------- Login controller
\* the mode switch: setIsRegister(!isRegister); setError('')
ToggleMode ==
    /\ LoginUI
    /\ isRegister' = ~isRegister
    /\ error' = None
    /\ dialog' = NoDialog
    /\ UNCHANGED <<configVars, storage, location, navTarget, searchParams, isAuthenticated,
                   success, loginLoading, authLog, notesVars, formVars, inflight,
                   serverVars, issued>>

\* Login.handleSubmit, up to the await; the submit button is disabled while loading
LoginHandleSubmit ==
    /\ LoginUI
    /\ ~loginLoading
    /\ HasRoom
    /\ error' = None
    /\ loginLoading' = TRUE
    /\ authLog' = <<>>
    /\ issued' = issued + 1
    /\ inflight' = Append(inflight,
          Request(storage, IF isRegister THEN "register" ELSE "login", 0, NoDraft,
                  None, {}, 0, FALSE))
    /\ dialog' = NoDialog
    /\ UNCHANGED <<configVars, storage, location, navTarget, searchParams, isAuthenticated,
                   isRegister, success, notesVars, formVars, serverVars>>

\* ------------------------------------------------------------- remote API
IsAuthCall(r) == r.kind \in {"login", "register"}
OwnedBy(u) == {n \in serverNotes : n.user_id = u}
Stored(r) == {n \in OwnedBy(UserOf(Presented(r.auth))) : n.id = r.id}
Answered(r, status, detail, message) ==
    [r EXCEPT !.phase = "answered", !.status = status, !.detail = detail,
              !.message = message]

\* the server refuses the request, or the request never gets an answer
ServerFails(i) ==
    /\ Idle
    /\ inflight[i].phase = "sent"
    /\ \E a \in {Answered(inflight[i], HTTP_UNAUTHORIZED, "Not authenticated",
                          "Request failed with status code 401"),
                 Answered(inflight[i], 0, None, "Network Error")} :
          inflight' = [inflight EXCEPT ![i] = a]
    /\ dialog' = NoDialog
    /\ UNCHANGED <<configVars, storage, location, navTarget, searchParams, isAuthenticated,
                   loginVars, notesVars, formVars, serverVars, issued>>

\* the server carries the request out; every call but register and login
\* needs a bearer token
ServerHandles(i) ==
    LET r == inflight[i]
        ok == Answered(r, 200, None, None)
        u == UserOf(Presented(r.auth))
    IN  /\ Idle
        /\ r.phase = "sent"
        /\ IsAuthCall(r) \/ Presented(r.auth) # None
        /\ dialog' = NoDialog
        /\ UNCHANGED <<configVars, storage, location, navTarget, searchParams,
                       isAuthenticated, loginVars, notesVars, formVars, issued>>
        /\ CASE r.kind = "getAll" ->
                  /\ inflight' = [inflight EXCEPT ![i] =
                                    [ok EXCEPT !.rNotes = OwnedBy(u)]]
                  /\ UNCHANGED serverVars
             [] r.kind = "create" ->
                  /\ LET n == [id |-> nextId, title |-> r.draft.title,
                               content |-> r.draft.content,
                               image_url |-> r.draft.image_url,
                               summary |-> None, user_id |-> u]
                     IN  /\ serverNotes' = serverNotes \cup {n}
                         /\ inflight' = [inflight EXCEPT ![i] =
                                           [ok EXCEPT !.rNote = n]]
                  /\ nextId' = nextId + 1
             [] r.kind = "delete" ->
                  /\ Stored(r) # {}
                  /\ serverNotes' = serverNotes \ Stored(r)
                  /\ inflight' = [inflight EXCEPT ![i] = ok]
                  /\ UNCHANGED nextId
             [] r.kind = "summarize" ->
                  /\ \E n \in Stored(r), s \in Summaries :
                        LET m == [n EXCEPT !.summary = s]
                        IN  /\ serverNotes' = (serverNotes \ {n}) \cup {m}
                            /\ inflight' = [inflight EXCEPT ![i] =
                                              [ok EXCEPT !.rNote = m]]
                  /\ UNCHANGED nextId
             [] r.kind = "upload" ->
                  /\ inflight' = [inflight EXCEPT ![i] =
                                    [ok EXCEPT !.rUrl = UrlOf(r.file)]]
                  /\ UNCHANGED serverVars
             [] IsAuthCall(r) ->
                  /\ \E t \in Tokens, confirm \in BOOLEAN, m \in {None, "Confirm your email"} :
                        inflight' = [inflight EXCEPT ![i] =
                           IF confirm
                           THEN [ok EXCEPT !.rConfirm = TRUE, !.rMsg = m]
                           ELSE [ok EXCEPT !.rToken = t, !.rUser = UserOf(t)]]
                  /\ UNCHANGED serverVars

\* a stored note the server does not have (any more): 404
ServerNotFound(i) ==
    /\ Idle
    /\ inflight[i].phase = "sent"
    /\ inflight[i].kind \in {"delete", "summarize"}
    /\ Presented(inflight[i].auth) # None
    /\ Stored(inflight[i]) = {}
    /\ inflight' = [inflight EXCEPT ![i] =
          Answered(inflight[i], 404, "Note not found",
                   "Request failed with status code 404")]
    /\ dialog' = NoDialog
    /\ UNCHANGED <<configVars, storage, location, navTarget, searchParams, isAuthenticated,
                   loginVars, notesVars, formVars, serverVars, issued>>

\* ------------------------------------------------- response interceptor
\* api.interceptors.response.use on the response of request i; the facade's
\* promise settles with the outcome
Deliver(i) ==
    /\ Idle
    /\ inflight[i].phase = "answered"
    /\ storage' = InterceptorStorage(storage, inflight[i].status)
    /\ navTarget' = InterceptorNavTarget(navTarget, inflight[i].status)
    /\ inflight' = [inflight EXCEPT ![i] =
          [@ EXCEPT !.phase = "settled",
                    !.rejected = InterceptorRejects(inflight[i].status)]]
    /\ dialog' = NoDialog
    /\ UNCHANGED <<configVars, location, searchParams, isAuthenticated, loginVars, notesVars,
                   formVars, serverVars, issued>>

\* ------------------------------------------------- handlers after the await
\* loadNotes() called from a handler: setLoading(true) and the request; the
\* screen renders only "Loading notes...", so the NoteForm unmounts
LoadNotesFrom(reqs) == Append(FormUnmounted(reqs), GetAll(storage))

\* loadNotes, catch: error.response?.data?.detail || error.message || '...'
LoadNotesMessage(r) ==
    IF r.detail # None THEN r.detail
    ELSE IF r.message # None THEN r.message ELSE "Failed to load notes"
\* loadNotes, catch: no alert for an auth error
LoadNotesAlerts(r) == r.status # HTTP_UNAUTHORIZED

\* loadNotes after `await notesAPI.getAll()`
ContinueLoadNotes(i) ==
    LET r == inflight[i]
    IN  /\ r.phase = "settled"
        /\ r.kind = "getAll"
        /\ IF r.rejected
           THEN /\ dialog' = IF LoadNotesAlerts(r)
                             THEN Alert("loadNotes", LoadNotesMessage(r), r.status)
                             ELSE NoDialog
                /\ UNCHANGED notes
           ELSE /\ notes' = r.rNotes
                /\ dialog' = NoDialog
        /\ loading' = FALSE
        /\ inflight' = RemoveAt(inflight, i)
        /\ UNCHANGED <<configVars, storage, location, navTarget, searchParams,
                       isAuthenticated, loginVars, showForm, selectedNote,
                       summarizing, formVars, serverVars, issued>>

\* handleCreateNote after `await notesAPI.create(noteData)`, then the rest of
\* NoteForm.handleSubmit (no initialData: the form clears itself)
ContinueCreate(i) ==
    LET r == inflight[i]
    IN  /\ r.phase = "settled"
        /\ r.kind = "create"
        /\ IF r.rejected
           THEN /\ dialog' = Alert("handleCreateNote",
                                   DetailOr(r, "Failed to create note"), r.status)
                /\ inflight' = RemoveAt(inflight, i)
                /\ IF r.formLive
                   THEN /\ title' = <<>>
                        /\ content' = <<>>
                        /\ imageUrl' = None
                   ELSE UNCHANGED <<title, content, imageUrl>>
                /\ UNCHANGED <<showForm, loading, uploading>>
           ELSE /\ showForm' = FALSE
                /\ loading' = TRUE
                /\ inflight' = LoadNotesFrom(RemoveAt(inflight, i))
                /\ FreshForm
                /\ dialog' = NoDialog
        /\ UNCHANGED <<configVars, storage, location, navTarget, searchParams,
                       isAuthenticated, loginVars, notes, selectedNote,
                       summarizing, serverVars, issued>>

\* handleDeleteNote: the selection it leaves after a successful delete
DeleteSelection(r, sel) == IF r.capSel = r.id THEN NoNote ELSE sel

\* a handler that re-fetches the list whether or not the delete succeeded
DeleteReloadsAlways(r) == TRUE
\* handleDeleteNote: loadNotes() follows the await inside the try block, so it
\* is reached only when the request did not throw
DeleteReloads(r) == ~r.rejected

\* handleDeleteNote after `await notesAPI.delete(id)`
ContinueDelete(i) ==
    LET r == inflight[i]
    IN  /\ r.phase = "settled"
        /\ r.kind = "delete"
        /\ dialog' = IF r.rejected
                     THEN Alert("handleDeleteNote",
                                DetailOr(r, "Failed to delete note"), r.status)
                     ELSE NoDialog
        /\ IF DeleteReloads(r)
           THEN /\ loading' = TRUE
                /\ inflight' = LoadNotesFrom(RemoveAt(inflight, i))
                /\ FreshForm
           ELSE /\ inflight' = RemoveAt(inflight, i)
                /\ UNCHANGED <<loading, formVars>>
        /\ selectedNote' = IF r.rejected THEN selectedNote
                           ELSE DeleteSelection(r, selectedNote)
        /\ UNCHANGED <<configVars, storage, location, navTarget, searchParams,
                       isAuthenticated, loginVars, notes, showForm, summarizing,
                       serverVars, issued>>

\* a handler that writes a summary into the held note itself
SummarizeNotesInPlace(r) ==
    {IF n.id = r.id THEN [n EXCEPT !.summary = "s1"] ELSE n : n \in r.capNotes}
\* handleSummarize: setNotes(notes.map(n => n.id === noteId ? updatedNote : n)),
\* `notes` being the list of the render that invoked the handler
SummarizeNotes(r) == {IF n.id = r.id THEN r.rNote ELSE n : n \in r.capNotes}
\* handleSummarize: if (selectedNote?.id === noteId) setSelectedNote(updatedNote),
\* `selectedNote` being the selection of the render that invoked the handler
SummarizeSelection(r, sel) == IF r.capSel = r.id THEN r.rNote ELSE sel

\* handleSummarize after `await notesAPI.summarize(noteId)`
ContinueSummarize(i) ==
    LET r == inflight[i]
    IN  /\ r.phase = "settled"
        /\ r.kind = "summarize"
        /\ IF r.rejected
           THEN /\ dialog' = Alert("handleSummarize",
                                   DetailOr(r, "Failed to generate summary"),
                                   r.status)
                /\ UNCHANGED <<notes, selectedNote>>
           ELSE /\ notes' = SummarizeNotes(r)
                /\ selectedNote' = SummarizeSelection(r, selectedNote)
                /\ dialog' = NoDialog
        /\ summarizing' = 0
        /\ inflight' = RemoveAt(inflight, i)
        /\ UNCHANGED <<configVars, storage, location, navTarget, searchParams,
                       isAuthenticated, loginVars, loading, showForm,
                       formVars, serverVars, issued>>

\* handleImageUpload after `await uploadAPI.uploadImage(file)`
ContinueUpload(i) ==
    LET r == inflight[i]
    IN  /\ r.phase = "settled"
        /\ r.kind = "upload"
        /\ IF r.rejected
           THEN /\ dialog' = Alert("handleImageUpload",
                                   DetailOr(r, "Failed to upload image"), r.status)
                /\ UNCHANGED imageUrl
           ELSE /\ imageUrl' = IF r.formLive THEN r.rUrl ELSE imageUrl
                /\ dialog' = NoDialog
        /\ uploading' = IF r.formLive THEN FALSE ELSE uploading
        /\ inflight' = RemoveAt(inflight, i)
        /\ UNCHANGED <<configVars, storage, location, navTarget, searchParams,
                       isAuthenticated, loginVars, notesVars, title, content,
                       serverVars, issued>>

\* a handler that ignores the confirmation signal
RequiresConfirmationNever(r) == FALSE
\* Login.handleSubmit: response && response.requires_confirmation
RequiresConfirmation(r) == r.rConfirm
\* a handler that navigates before it establishes the session
AuthCallsNavigateFirst(r) ==
    IF r.rejected \/ RequiresConfirmation(r) THEN <<>>
    ELSE <<[op |-> "navigate", token |-> None, user |-> None, to |-> "/notes"],
           [op |-> "login", token |-> r.rToken, user |-> r.rUser, to |-> None]>>
\* Login.handleSubmit: the calls it makes once the request has settled
AuthCalls(r) ==
    IF r.rejected \/ RequiresConfirmation(r) THEN <<>>
    ELSE <<[op |-> "login", token |-> r.rToken, user |-> r.rUser, to |-> None],
           [op |-> "navigate", token |-> None, user |-> None, to |-> "/notes"]>>
\* Login.handleSubmit: the inline message it sets
AuthError(r) ==
    IF r.rejected
    THEN IF r.detail # None THEN r.detail
         ELSE IF r.message # None THEN r.message ELSE "An error occurred"
    ELSE IF RequiresConfirmation(r)
    THEN IF r.rMsg # None THEN r.rMsg
         ELSE "Please check your email to confirm your account."
    ELSE None

\* Login.handleSubmit after `await authAPI.register / login`
ContinueAuth(i) ==
    LET r == inflight[i]
        calls == AuthCalls(r)
        logins == {k \in DOMAIN calls : calls[k].op = "login"}
        navs == {k \in DOMAIN calls : calls[k].op = "navigate"}
        st == IF logins = {} THEN storage
              ELSE LET c == calls[CHOOSE k \in logins : \A j \in logins : j <= k]
                   IN  SessionLogin(c.token, c.user)
        auth == isAuthenticated \/ logins # {}
        loc == IF navs = {} THEN Settled(location, auth)
               ELSE Settled(calls[CHOOSE k \in navs : \A j \in navs : j <= k].to, auth)
    IN  /\ r.phase = "settled"
        /\ IsAuthCall(r)
        /\ authLog' = authLog \o calls
        /\ storage' = st
        /\ isAuthenticated' = auth
        /\ location' = loc
        /\ dialog' = NoDialog
        /\ IF ScreenAt(loc, auth) = "Notes"
           THEN \* the Login screen unmounts, the Notes screen mounts
                /\ FreshLogin
                /\ error' = None
                /\ success' = None
                /\ searchParams' = "none"
                /\ inflight' = Append(RemoveAt(inflight, i), GetAll(st))
           ELSE /\ error' = IF AuthError(r) # None THEN AuthError(r) ELSE error
                /\ loginLoading' = FALSE
                /\ inflight' = RemoveAt(inflight, i)
                /\ UNCHANGED <<isRegister, success, searchParams>>
        /\ UNCHANGED <<configVars, navTarget, notesVars, formVars, serverVars, issued>>

\* the full-page navigation started by the response interceptor completes:
\* the application starts again at navTarget, outstanding requests are dropped
PageLoad ==
    /\ Idle
    /\ navTarget # None
    /\ isAuthenticated' = RestoreSession(storage)
    /\ location' = Settled(navTarget, RestoreSession(storage))
    /\ searchParams' = "none"
    /\ inflight' = MountRequests(navTarget, storage)
    /\ navTarget' = None
    /\ dialog' = NoDialog
    /\ FreshLogin
    /\ error' = None
    /\ success' = None
    /\ authLog' = <<>>
    /\ FreshNotes
    /\ FreshForm
    /\ UNCHANGED <<configVars, storage, serverVars, issued>>

\* the remote API answers, the adapter delivers, the page reloads
Network ==
    \/ \E i \in DOMAIN inflight : ServerFails(i)
    \/ \E i \in DOMAIN inflight : ServerHandles(i)
    \/ \E i \in DOMAIN inflight : Deliver(i)
    \/ PageLoad

\* The note list of a user who is signed in: selecting, deleting and
\* summarizing notes.
Next ==
    \/ \E n \in notes : SelectNote(n)
    \/ \E accepted \in BOOLEAN : HandleDeleteNote(accepted)
    \/ HandleSummarize
    \/ Network
    \/ \E i \in DOMAIN inflight : ServerNotFound(i)
    \/ \E i \in DOMAIN inflight : ContinueLoadNotes(i)
    \/ \E i \in DOMAIN inflight : ContinueDelete(i)
    \/ \E i \in DOMAIN inflight : ContinueSummarize(i)

InitNotes == Init /\ storage # NoSession

Spec == InitNotes /\ [][Next]_vars

\* Creating notes next to the note list: the user types one valid text,
\* submits, selects and summarizes.
NextCreate ==
    \/ ToggleForm
    \/ OnCancel
    \/ SetTitle(ValidText)
    \/ SetContent(ValidText)
    \/ FormHandleSubmit
    \/ \E n \in notes : SelectNote(n)
    \/ HandleSummarize
    \/ Network
    \/ \E i \in DOMAIN inflight : ContinueLoadNotes(i)
    \/ \E i \in DOMAIN inflight : ContinueCreate(i)
    \/ \E i \in DOMAIN inflight : ContinueSummarize(i)

SpecCreate == InitNotes /\ [][NextCreate]_vars

\* Every request sent gets an answer or fails, the adapter settles its
\* promise, the handler that awaits it resumes, and a page navigation that was
\* started completes; what the user does next is not forced.
Progress ==
    \/ Network
    \/ \E i \in DOMAIN inflight : ServerNotFound(i)
    \/ \E i \in DOMAIN inflight : ContinueLoadNotes(i)
    \/ \E i \in DOMAIN inflight : ContinueCreate(i)
    \/ \E i \in DOMAIN inflight : ContinueDelete(i)
    \/ \E i \in DOMAIN inflight : ContinueSummarize(i)
    \/ \E i \in DOMAIN inflight : ContinueUpload(i)
    \/ \E i \in DOMAIN inflight : ContinueAuth(i)

\* The note list when the remote API answers every request it receives
\* (a note that is gone is answered with 404).
NextReliable ==
    \/ \E n \in notes : SelectNote(n)
    \/ \E accepted \in BOOLEAN : HandleDeleteNote(accepted)
    \/ HandleSummarize
    \/ \E i \in DOMAIN inflight : ServerHandles(i)
    \/ \E i \in DOMAIN inflight : ServerNotFound(i)
    \/ \E i \in DOMAIN inflight : Deliver(i)
    \/ \E i \in DOMAIN inflight : ContinueLoadNotes(i)
    \/ \E i \in DOMAIN inflight : ContinueDelete(i)
    \/ \E i \in DOMAIN inflight : ContinueSummarize(i)

SpecReliable == InitNotes /\ [][NextReliable]_vars /\ WF_vars(Progress)

\* Creating notes next to the note list when the remote API carries out
\* every request it receives.
NextCreateReliable ==
    \/ ToggleForm
    \/ OnCancel
    \/ SetTitle(ValidText)
    \/ SetContent(ValidText)
    \/ FormHandleSubmit
    \/ \E n \in notes : SelectNote(n)
    \/ HandleSummarize
    \/ \E i \in DOMAIN inflight : ServerHandles(i)
    \/ \E i \in DOMAIN inflight : Deliver(i)
    \/ \E i \in DOMAIN inflight : ContinueLoadNotes(i)
    \/ \E i \in DOMAIN inflight : ContinueCreate(i)
    \/ \E i \in DOMAIN inflight : ContinueSummarize(i)

SpecCreateReliable == InitNotes /\ [][NextCreateReliable]_vars /\ WF_vars(Progress)

\* The note composition form: typing, attaching an image, submitting.
NextForm ==
    \/ ToggleForm
    \/ OnCancel
    \/ \E s \in Texts : SetTitle(s)
    \/ \E s \in Texts : SetContent(s)
    \/ RemoveImage
    \/ \E f \in Files \cup {None} : HandleImageUpload(f)
    \/ FormHandleSubmit
    \/ Network
    \/ \E i \in DOMAIN inflight : ContinueLoadNotes(i)
    \/ \E i \in DOMAIN inflight : ContinueCreate(i)
    \/ \E i \in DOMAIN inflight : ContinueUpload(i)

InitForm == Init /\ storage # NoSession /\ serverNotes = {}

SpecForm == InitForm /\ [][NextForm]_vars

\* Signing in: every entry path, with or without a stored session.
NextLogin ==
    \/ ToggleMode
    \/ LoginHandleSubmit
    \/ Network
    \/ \E i \in DOMAIN inflight : ContinueAuth(i)
    \/ \E i \in DOMAIN inflight : ContinueLoadNotes(i)

SpecLogin == Init /\ [][NextLogin]_vars

\* The whole application, from a browser that holds no session: the user
\* signs in and then uses the Notes screen.
NextApp ==
    \/ ToggleMode
    \/ LoginHandleSubmit
    \/ \E i \in DOMAIN inflight : ContinueAuth(i)
    \/ ToggleForm
    \/ OnCancel
    \/ SetTitle(ValidText)
    \/ SetContent(ValidText)
    \/ RemoveImage
    \/ HandleImageUpload("f1")
    \/ FormHandleSubmit
    \/ \E n \in notes : SelectNote(n)
    \/ \E accepted \in BOOLEAN : HandleDeleteNote(accepted)
    \/ HandleSummarize
    \/ Network
    \/ \E i \in DOMAIN inflight : ContinueLoadNotes(i)
    \/ \E i \in DOMAIN inflight : ContinueCreate(i)
    \/ \E i \in DOMAIN inflight : ContinueDelete(i)
    \/ \E i \in DOMAIN inflight : ContinueSummarize(i)
    \/ \E i \in DOMAIN inflight : ContinueUpload(i)

InitApp == Init /\ storage = NoSession

SpecApp == InitApp /\ [][NextApp]_vars

\* The note list with both sources of a re-fetch, a create and a delete, when
\* the remote API answers every request it receives.
NextRefetch ==
    \/ ToggleForm
    \/ SetTitle(ValidText)
    \/ SetContent(ValidText)
    \/ FormHandleSubmit
    \/ \E n \in notes : SelectNote(n)
    \/ \E accepted \in BOOLEAN : HandleDeleteNote(accepted)
    \/ \E i \in DOMAIN inflight : ServerHandles(i)
    \/ \E i \in DOMAIN inflight : ServerNotFound(i)
    \/ \E i \in DOMAIN inflight : Deliver(i)
    \/ \E i \in DOMAIN inflight : ContinueLoadNotes(i)
    \/ \E i \in DOMAIN inflight : ContinueCreate(i)
    \/ \E i \in DOMAIN inflight : ContinueDelete(i)

SpecRefetch == InitNotes /\ [][NextRefetch]_vars /\ WF_vars(Progress)

\* the build configuration alone: any override, either kind of build, and the
\* module body of api.ts still to run
EvaluateModule ==
    /\ baseURL = NotEvaluated
    /\ baseURL' = getApiBaseURL(env)
    /\ UNCHANGED <<env, browserVars, isAuthenticated, loginVars, notesVars, formVars,
                   inflight, serverVars, issued>>

NextConfig == EvaluateModule

InitConfig ==
    /\ InitPage
    /\ storage = NoSession
    /\ serverNotes = {}
    /\ env \in Envs
    /\ baseURL = NotEvaluated

SpecConfig == InitConfig /\ [][NextConfig]_vars

\* ------------------------------------------------------------ properties
\* requests whose promise has settled and whose caller has not resumed yet
SettledRequests == {i \in DOMAIN inflight : inflight[i].phase = "settled"}

\* C1: when the caller of a request answered with status 401 is about to
\* resume, whichever endpoint it called, the stored token and the stored user
\* are gone, the navigation to /login has been started and the call is rejected
C1_UnauthorizedEndsSession ==
    \A i \in SettledRequests :
        inflight[i].status = HTTP_UNAUTHORIZED
        => /\ storage.token = None
           /\ storage.user = None
           /\ navTarget = "/login"
           /\ inflight[i].rejected
\* an image upload of a signed-in user is answered with 401 and has settled
C1_Witness ==
    \E i \in SettledRequests :
        /\ inflight[i].kind = "upload"
        /\ Presented(inflight[i].auth) # None
        /\ inflight[i].status = HTTP_UNAUTHORIZED

\* C2: no call site raises an alert of its own for a request answered with 401
C2_NoAlertOnUnauthorized ==
    dialog.type = "alert" => dialog.status # HTTP_UNAUTHORIZED

\* C3: when a summarize request for note X completes successfully, the
\* displayed list after the completion differs from the list before it at most
\* in the entry whose id is X
C3_SummarizeChangesOnlyX ==
    [][\A i \in SettledRequests :
          inflight[i].kind = "summarize" /\ inflight[i].status = 200
          => \A n \in notes \cup notes' :
                n.id # inflight[i].id => (n \in notes <=> n \in notes')]_vars

\* nothing is outstanding on the Notes screen
Quiet == Screen = "Notes" /\ inflight = <<>>
\* the ids a set of notes holds
Ids(ns) == {n.id : n \in ns}

\* C4: once a delete of note X has succeeded, whenever nothing is outstanding
\* the displayed list has no entry X, has an entry for every note the server
\* holds for the user, and the selection is not X
C4_DeletedNoteStaysGone ==
    \A x \in Ids({Seeds[j] : j \in DOMAIN Seeds}) :
        []((\E i \in SettledRequests :
               /\ inflight[i].kind = "delete"
               /\ inflight[i].id = x
               /\ inflight[i].status = 200)
           => [](Quiet => /\ x \notin Ids(notes)
                          /\ Ids(OwnedBy(storage.user)) \subseteq Ids(notes)
                          /\ selectedNote.id # x))

\* C5: a create request that succeeded closes the form and issues one list
\* fetch without touching the displayed list; from then on, whenever nothing is
\* outstanding, the list holds a note with the submitted title and content
C5_CreatedNoteListed ==
    /\ [][\A i \in SettledRequests :
             inflight[i].kind = "create" /\ inflight[i].status = 200
             => /\ showForm' = FALSE
                /\ notes' = notes
                /\ Len(inflight') = Len(inflight)
                /\ inflight'[Len(inflight')].kind = "getAll"
                /\ inflight'[Len(inflight')].phase = "sent"]_vars
    /\ []((\E i \in SettledRequests :
              /\ inflight[i].kind = "create"
              /\ inflight[i].status = 200
              /\ inflight[i].draft.title = Trim(ValidText))
          => [](Quiet => \E n \in notes : /\ n.title = Trim(ValidText)
                                          /\ n.content = Trim(ValidText)))

\* the requests of one kind among the outstanding ones
OfKind(reqs, kind) == {j \in DOMAIN reqs : reqs[j].kind = kind}
\* an HTTP status that reports success
IsSuccess(status) == status >= 200 /\ status < 300

C7_ConfirmationRequiredStaysOut ==
    [][\A i \in SettledRequests :
          /\ inflight[i].kind \in {"login", "register"}
          /\ IsSuccess(inflight[i].status)
          /\ inflight[i].rConfirm
          => /\ authLog' = <<>>
             /\ storage' = storage
             /\ storage'.token = None
             /\ storage'.user = None
             /\ location' = location
             /\ navTarget' = navTarget
             /\ Screen' = "Login"
             /\ error' # None
             /\ loginLoading' = FALSE]_vars
\* a confirmation-required answer without a message has been handled
C7_Witness ==
    /\ Screen = "Login"
    /\ error = "Please check your email to confirm your account."
    /\ ~loginLoading
    /\ storage = NoSession
    /\ inflight = <<>>

C9_DeleteNeedsConfirmation ==
    [][/\ Cardinality(OfKind(inflight', "delete")) > Cardinality(OfKind(inflight, "delete"))
          => /\ dialog'.type = "confirm-accepted"
             /\ inflight'[Len(inflight')].kind = "delete"
             /\ inflight'[Len(inflight')].id = dialog'.id
       /\ dialog'.type = "confirm-declined"
          => /\ inflight' = inflight
             /\ notes' = notes
             /\ selectedNote' = selectedNote
             /\ loading' = loading
             /\ showForm' = showForm
             /\ summarizing' = summarizing
             /\ formVars' = formVars
             /\ serverVars' = serverVars]_vars
\* the user has accepted the prompt and the delete request of that note is out
C9_Witness ==
    /\ dialog.type = "confirm-accepted"
    /\ inflight # <<>>
    /\ inflight[Len(inflight)].kind = "delete"
    /\ inflight[Len(inflight)].phase = "sent"
    /\ inflight[Len(inflight)].id = dialog.id

\* s is t without its leading and trailing blanks
IsTrimOf(s, t) ==
    /\ s # <<>>
    /\ Head(s) # " "
    /\ s[Len(s)] # " "
    /\ \E k \in 0..Len(t) :
          /\ k + Len(s) <= Len(t)
          /\ \A j \in 1..Len(t) :
                IF j > k /\ j <= k + Len(s) THEN t[j] = s[j - k] ELSE t[j] = " "
\* s consists of blanks only
IsBlank(s) == \A j \in 1..Len(s) : s[j] = " "

\* C10: a step that sends a create request sends the non-empty trimmed title
\* and content of the form; a submit blocked by the validation happens exactly
\* when the title or the content is blank, sends nothing and leaves the draft
\* fields as they are
C10_SubmitOnlyTrimmedDraft ==
    [][/\ Cardinality(OfKind(inflight', "create")) > Cardinality(OfKind(inflight, "create"))
          => /\ inflight'[Len(inflight')].kind = "create"
             /\ IsTrimOf(inflight'[Len(inflight')].draft.title, title)
             /\ IsTrimOf(inflight'[Len(inflight')].draft.content, content)
       /\ (dialog'.type = "alert" /\ dialog'.site = "NoteForm.handleSubmit")
          => /\ IsBlank(title) \/ IsBlank(content)
             /\ inflight' = inflight
             /\ formVars' = formVars
       /\ (FormUI /\ ~uploading /\ (IsBlank(title) \/ IsBlank(content)))
          => Cardinality(OfKind(inflight', "create")) <= Cardinality(OfKind(inflight, "create"))]_vars
\* a title and a content typed with surrounding blanks have been submitted
C10_Witness ==
    /\ inflight # <<>>
    /\ inflight[Len(inflight)].kind = "create"
    /\ inflight[Len(inflight)].phase = "sent"
    /\ inflight[Len(inflight)].draft.title = <<"a">>
    /\ title = <<" ", "a", " ">>
    /\ content = <<" ", "a", " ">>

\* the requests of reqs that have been sent and not yet handled, whatever has
\* become of the form that issued them
Sent(reqs) ==
    {[reqs[j] EXCEPT !.formLive = FALSE] : j \in {k \in DOMAIN reqs : reqs[k].phase = "sent"}}

\* C11: a request that a step sends carries the header `Bearer t` where t is
\* the token in durable storage as the request leaves, and no Authorization
\* header when no token is stored
C11_BearerIsStoredToken ==
    [][\A r \in Sent(inflight') \ Sent(inflight) :
          IF storage'.token = None
          THEN r.auth.scheme = None /\ r.auth.credentials = None
          ELSE r.auth.scheme = "Bearer" /\ r.auth.credentials = storage'.token]_vars
\* a 401 has cleared the session, the page has not reloaded yet, and a request
\* the signed-out Notes screen sent is on its way without a header
C11_Witness ==
    /\ storage.token = None
    /\ navTarget = "/login"
    /\ Screen = "Notes"
    /\ \E i \in DOMAIN inflight :
          /\ inflight[i].phase = "sent"
          /\ inflight[i].kind \in {"create", "delete", "summarize", "upload"}
          /\ inflight[i].auth = NoHeader

\* the notes the responses that have just settled returned for display: the
\* list of a list fetch, the updated note of a summarize
Returned ==
    UNION {IF inflight[i].kind = "getAll" THEN inflight[i].rNotes
           ELSE IF inflight[i].kind = "summarize" THEN {inflight[i].rNote}
           ELSE {} : i \in {k \in SettledRequests : IsSuccess(inflight[k].status)}}

\* C12: a step puts into the displayed list only notes that were displayed
\* when the resuming handler was invoked or that a list fetch or a summarize
\* has just returned, and selects only a displayed note or the note a
\* summarize has just returned; a handler captures only the displayed list
C12_NotesComeFromServer ==
    [][/\ \A r \in Sent(inflight') \ Sent(inflight) : r.capNotes \subseteq notes
       /\ \A n \in notes' \ notes :
             \/ n \in Returned
             \/ \E i \in SettledRequests : n \in inflight[i].capNotes
       /\ selectedNote' \in {NoNote, selectedNote} \cup notes \cup Returned]_vars
\* a summary the server returned is displayed in the list and in the selection
C12_Witness ==
    /\ Screen = "Notes"
    /\ selectedNote \in notes
    /\ selectedNote.summary \in Summaries
    /\ selectedNote \in serverNotes

\* C13 as stated: on the login screen the error message and the success
\* banner are never both non-empty
C13_NeverBothBanners ==
    Screen = "Login" => ~(error # None /\ success # None)
\* C13 amended: no single event sets both. The query-parameter effect, which
\* runs when the screen mounts, leaves at most one of them non-empty, and no
\* later step writes the success banner (it only goes away with the screen)
C13_NoEventSetsBoth ==
    /\ ~(error # None /\ success # None)
    /\ [][/\ success' \in {success, None}
          /\ ~(error' # error /\ success' # success /\ error' # None /\ success' # None)]_vars
\* the banner of a confirmation link is still shown when a submission fails
C13_Witness ==
    /\ Screen = "Login"
    /\ success = "Email confirmed successfully! You can now log in."
    /\ error # None
    /\ ~loginLoading

\* uploads whose promise has just been fulfilled / rejected
UploadsOk ==
    {i \in SettledRequests : inflight[i].kind = "upload" /\ IsSuccess(inflight[i].status)}
UploadsFailed ==
    {i \in SettledRequests : inflight[i].kind = "upload" /\ ~IsSuccess(inflight[i].status)}
\* the step is the user removing the image from the draft
RemovesImage ==
    /\ imageUrl # None
    /\ imageUrl' = None
    /\ UNCHANGED <<title, content, uploading, notesVars, inflight>>
\* the step discards the form instance or clears it after a submission: the
\* form is toggled or cancelled, a create handler resumes, the list reloads,
\* the page reloads
ResetsForm ==
    /\ imageUrl' = None
    /\ \/ showForm' # showForm
       \/ \E i \in SettledRequests : inflight[i].kind = "create"
       \/ loading' /\ ~loading
       \/ navTarget' # navTarget
\* a step that sends a create request passes the draft's image URL, absent
\* when the draft has none; a failed upload leaves the image URL as it is
SubmitPassesImage ==
    /\ Cardinality(OfKind(inflight', "create")) > Cardinality(OfKind(inflight, "create"))
       => inflight'[Len(inflight')].draft.image_url = imageUrl
    /\ UploadsFailed # {} => imageUrl' = imageUrl

C15_RoutesSettle ==
    /\ \A path \in Paths, auth \in BOOLEAN :
          LET end == Settled(path, auth)
          IN  /\ AppRoutes(end, auth).redirect = None
              /\ end = IF auth THEN "/notes" ELSE "/login"
              /\ AppRoutes(end, auth).screen = IF auth THEN "Notes" ELSE "Login"
    /\ location = IF isAuthenticated THEN "/notes" ELSE "/login"
    /\ Screen = IF isAuthenticated THEN "Notes" ELSE "Login"
\* a sign-in on the login screen has led to the notes screen
C15_Witness ==
    /\ isAuthenticated
    /\ location = "/notes"
    /\ Screen = "Notes"
    /\ Len(authLog) = 2

\* an absolute URL whose host is the machine the page itself runs on
PointsToLocal(u) ==
    /\ Len(u) >= 2
    /\ u[1] \in {"http://", "https://"}
    /\ u[2] \in {"localhost", "127.0.0.1"}

\* the override as the resolution would return it
Override(e) == ReplaceTrailingSlash(Trim(IF e.defined THEN e.VITE_API_URL ELSE <<>>))

\* the resolution turns the override down as local-only
RejectedAsLocal(e) == e.PROD /\ Includes(Override(e), "localhost")

\* C16: the resolved base path is the override (trimmed, one trailing slash
\* removed) exactly when that value is not blank, is not rejected as a
\* local-only address in a production build, and starts with http://, https://
\* or /; otherwise it is /api. In a production build the result never points
\* to a local-only address.
C16_BasePathResolution ==
    baseURL # NotEvaluated =>
        LET o == Override(env)
            accepted ==
                /\ env.defined
                /\ ~IsBlank(o)
                /\ ~RejectedAsLocal(env)
                /\ \E piece \in {"http://", "https://", "/"} : Head(o) = piece
        IN  /\ baseURL = IF accepted THEN o ELSE DefaultRoot
            /\ env.PROD => ~PointsToLocal(baseURL)

\* the summarize requests for note x that have not yet resumed their handler
SummarizesOf(x) == {j \in OfKind(inflight, "summarize") : inflight[j].id = x}

\* disabled={summarizing === selectedNote.id} on the summarize button
SummarizeDisabled == selectedNote # NoNote /\ summarizing = selectedNote.id

\* C17: while a summarize request for note X is outstanding the summarize
\* control is disabled whenever X is the selected note, and no note has two
\* summarize requests in flight
C17_OneSummarizePerNote ==
    \A x \in Ids({Seeds[j] : j \in DOMAIN Seeds}) :
        /\ Cardinality(SummarizesOf(x)) <= 1
        /\ SummarizesOf(x) # {} /\ selectedNote # NoNote /\ selectedNote.id = x
              => SummarizeDisabled

\* C18: the step in which the handler of a successful summarize of note X
\* resumes replaces the selection by the updated note if the note selected at
\* that moment has id X, and otherwise leaves the selection as it is
C18_SelectionFollowsCurrent ==
    [][\A i \in SettledRequests :
          /\ inflight[i].kind = "summarize"
          /\ ~inflight[i].rejected
          /\ inflight' = RemoveAt(inflight, i)
          => selectedNote' = IF selectedNote # NoNote /\ selectedNote.id = inflight[i].id
                             THEN inflight[i].rNote
                             ELSE selectedNote]_vars

\* C19: the step in which the handler of a create that failed resumes, on a
\* page that is not about to be reloaded, leaves the form open, the draft's
\* title, content and image URL, the displayed list and the selection as they
\* were, and issues no list fetch
C19_FailedCreateKeepsDraft ==
    [][\A i \in SettledRequests :
          /\ inflight[i].kind = "create"
          /\ inflight[i].rejected
          /\ navTarget = None
          /\ Len(inflight') = Len(inflight) - 1
          => /\ showForm' = showForm
             /\ <<title', content', imageUrl'>> = <<title, content, imageUrl>>
             /\ <<notes', selectedNote'>> = <<notes, selectedNote>>
             /\ Cardinality(OfKind(inflight', "getAll"))
                   = Cardinality(OfKind(inflight, "getAll"))]_vars

\* the list fetches that have not yet resumed loadNotes
ListFetches == OfKind(inflight, "getAll")

\* C20: the notes controller starts in loading with one list fetch issued,
\* every loading state is followed by one that is not loading, and loading is
\* true in every state in which a list fetch is outstanding
C20_LoadingCoversFetches ==
    /\ loading = TRUE /\ Cardinality(ListFetches) = 1
    /\ (loading = TRUE) ~> (loading = FALSE)
    /\ [](ListFetches # {} => loading = TRUE)

=============================================================================
